---- MODULE Spec2Model ----
(***************************************************************************)
(* GeoModel (gempy/core/data/geo_model.py): the lazily derived            *)
(* InterpolationInput guarded by StructuralFrame.is_dirty, and the        *)
(* distribution of an engine Solutions object onto the structural groups  *)
(* and elements.                                                          *)
(*                                                                         *)
(* Coordinates are one axis of the 3-D space: input rows are integers,    *)
(* normalised coordinates exact fractions.  StructuralFrame,               *)
(* Transform and Grid are not part of the available sources; their        *)
(* operations are written from the design document and marked so in the   *)
(* model map.                                                             *)
(***************************************************************************)
EXTENDS Integers, Sequences, FiniteSets, TLC

\* ---------------------------------------------------------------- bounds
MaxElems == 3       \* structural elements in the frame (all groups together)
MaxRows == 1        \* rows of one element's surface-point / orientation table
MaxCoord == 1       \* coordinates are 0, 2, .., 2 * MaxCoord
MaxSlices == 2      \* per-group slices in one engine result
MaxMeshes == 2      \* entries of one engine result's mesh list
MaxLevels == 3      \* number_octree_levels is 1 (no octrees) or MaxLevels
MaxRebuilds == 2    \* rebuilds counted between two structural edits
MaxEdits == 1       \* structural edits in one behaviour
MaxPosition == 3    \* positions handed to a transform fit are 0 .. MaxPosition
MaxFitRows == 2     \* surface points handed to one transform fit

\* An optional value: None is the empty sequence, Some(v) holds v.
None == <<>>
Some(v) == <<v>>

Coord == {2 * k : k \in 0..MaxCoord}

\* The relation types the edits choose from (two of ERODE, ONLAP, FAULT,
\* BASEMENT).
Relations == {"ERODE", "FAULT"}

\* ---------------------------------------------------------------- helpers
RECURSIVE Concat(_)
Concat(ss) == IF ss = <<>> THEN <<>> ELSE Head(ss) \o Concat(Tail(ss))

RECURSIVE Pow2(_)
Pow2(n) == IF n <= 0 THEN 1 ELSE 2 * Pow2(n - 1)

SetMax(S) == CHOOSE x \in S : \A y \in S : y <= x
SetMin(S) == CHOOSE x \in S : \A y \in S : x <= y

Abs(n) == IF n < 0 THEN -n ELSE n

RECURSIVE GCD(_, _)
GCD(a, b) == IF b = 0 THEN a ELSE GCD(b, a % b)

\* Exact fractions in lowest terms with a positive denominator (d # 0).
Rat(n, d) ==
    LET g == GCD(Abs(n), Abs(d))
        sign == IF d < 0 THEN -1 ELSE 1
    IN  [num |-> (sign * n) \div g, den |-> Abs(d) \div g]

RatAdd(a, b) == Rat(a.num * b.den + b.num * a.den, a.den * b.den)
RatSub(a, b) == Rat(a.num * b.den - b.num * a.den, a.den * b.den)
RatMul(a, b) == Rat(a.num * b.num, a.den * b.den)

SeqRemove(s, k) == [i \in 1..(Len(s) - 1) |-> IF i < k THEN s[i] ELSE s[i + 1]]

\* ---------------------------------------------------------------- frame
\* StructuralElement: its own points/orientations and, after a solve, a mesh.
NewElement(pts, oris) ==
    [points |-> pts, orientations |-> oris, vertices |-> None, edges |-> None]

\* StructuralGroup: ordered elements, relation type, per-group solution slice.
NewGroup(els, rel) ==
    [elements |-> els, relation |-> rel, solution |-> None]

\* StructuralFrame.structural_elements: every element, group order then
\* element order.
StructuralElements(groups) ==
    Concat([g \in 1..Len(groups) |-> groups[g].elements])

\* A flattening that walks the elements from the last to the first.
SurfacePoints_Reversed(groups) ==
    LET els == StructuralElements(groups)
    IN  Concat([e \in 1..Len(els) |-> els[Len(els) + 1 - e].points])

\* StructuralFrame.surface_points: every element's points, flattened.
SurfacePoints(groups) ==
    LET els == StructuralElements(groups)
    IN  Concat([e \in 1..Len(els) |-> els[e].points])

\* StructuralFrame.orientations: every element's orientations, flattened.
Orientations(groups) ==
    LET els == StructuralElements(groups)
    IN  Concat([e \in 1..Len(els) |-> els[e].orientations])

\* StructuralFrame.input_data_descriptor: elements per group and relations.
InputDataDescriptor(groups) ==
    [g \in 1..Len(groups) |->
        [n_elements |-> Len(groups[g].elements), relation |-> groups[g].relation]]

\* The part of the frame that is_dirty tracks: the input tables, the group
\* ordering and composition, the relation types (not the solve's results).
FrameContent(groups) ==
    [g \in 1..Len(groups) |->
        [relation |-> groups[g].relation,
         elements |-> [i \in 1..Len(groups[g].elements) |->
                          [points |-> groups[g].elements[i].points,
                           orientations |-> groups[g].elements[i].orientations]]]]

\* ---------------------------------------------------------------- transform
UnitSpan == 2

\* Positions of all input rows.
InputPositions(sp, ori) ==
    {sp[i] : i \in 1..Len(sp)} \cup {ori[i].x : i \in 1..Len(ori)}

\* Transform.from_input_points raises DegenerateInputError: no input rows,
\* or all of them at one position.
Degenerate(sp, ori) == Cardinality(InputPositions(sp, ori)) <= 1

\* Transform.from_input_points: centre and extent of the input positions.
FromInputPoints(sp, ori) ==
    LET P == InputPositions(sp, ori)
    IN  [center |-> Rat(SetMax(P) + SetMin(P), 2),
         extent |-> SetMax(P) - SetMin(P)]

\* Transform.apply on one coordinate: to the centred unit span.
Apply(T, p) ==
    RatMul(RatSub(Rat(p, 1), T.center), Rat(UnitSpan, T.extent))

\* An inverse that forgets the centre.
ApplyInverse_NoCenter(T, vs) ==
    [i \in 1..Len(vs) |-> RatMul(vs[i], Rat(T.extent, UnitSpan))]

\* Transform.apply_inverse on a sequence of normalised coordinates.
ApplyInverse(T, vs) ==
    [i \in 1..Len(vs) |->
        RatAdd(RatMul(vs[i], Rat(T.extent, UnitSpan)), T.center)]

\* ---------------------------------------------------------------- engine
\* InterpolationInput.from_structural_frame: the frame's flattened tables with
\* every position normalised by the transform (gradients are left alone),
\* the grid's regular-grid resolution and the octree switch.
FromStructuralFrame(groups, res, T, octrees) ==
    LET sp == SurfacePoints(groups)
        ori == Orientations(groups)
    IN  [surface_points |-> [i \in 1..Len(sp) |-> Apply(T, sp[i])],
         orientations |-> [i \in 1..Len(ori) |->
                              [x |-> Apply(T, ori[i].x), g |-> ori[i].g]],
         resolution |-> res,
         octrees |-> octrees]

\* One mesh of engine result k at output index i (normalised coordinates).
Mesh(k, i) ==
    [vertices |-> <<Rat(k, 1), Rat(i, 2)>>, edges |-> << <<k, i, k>> >>]

\* The mesh lists an engine result k may carry: none at all, or a list whose
\* entries are a mesh or None.
MeshLists(k) ==
    {None} \cup
    {Some([i \in 1..n |-> IF i \in present THEN Some(Mesh(k, i)) ELSE None]) :
        n \in 0..MaxMeshes, present \in SUBSET (1..MaxMeshes)}

\* raw_arrays of engine result k with n slices.
RawArrays(k, n) ==
    [scalar_field_matrix |-> [e \in 1..n |-> <<"sf", k, e>>],
     block_matrix |-> [e \in 1..n |-> <<"block", k, e>>]]

\* Two engine results with different contents.
SolutionIds == {1, 2}

\* The Solutions objects a caller may assign.
SolutionsSet ==
    UNION {{[raw_arrays |-> RawArrays(k, n), dc_meshes |-> m] :
                n \in 0..MaxSlices, m \in MeshLists(k)} : k \in SolutionIds}

\* ---------------------------------------------------------------- state
VARIABLES
    structural_groups,   \* StructuralFrame.structural_groups
    is_dirty,            \* StructuralFrame.is_dirty
    resolution,          \* Grid.regular_grid.resolution
    n_octree_lvl,        \* InterpolationOptions.number_octree_levels
    transform,           \* GeoModel.transform
    interpolationInput,  \* GeoModel._interpolationInput
    solutions,           \* GeoModel._solutions
    lastOp,              \* the operation that ran last
    result,              \* what it returned or raised
    warned,              \* whether it emitted the UserWarning
    rebuilds,            \* InterpolationInput builds since the last structural edit
    edits,               \* structural edits so far
    clearedContent,      \* the frame's content when is_dirty was last false
    pc,                  \* where each reading thread stands
    lock                 \* the thread inside the mutual-exclusion region, or None

vars == <<structural_groups, is_dirty, resolution, n_octree_lvl, transform,
          interpolationInput, solutions, lastOp, result, warned, rebuilds,
          edits, clearedContent, pc, lock>>

\* Two threads that read the accessor.
Threads == {1, 2}

Returned(v) == [status |-> "ok", value |-> v]
Raised(e) == [status |-> e, value |-> None]

\* ---------------------------------------------------------------- construction
PointOf(c) == <<c>>
OrientationOf(c) == <<[x |-> c, g |-> 1]>>

\* Frames handed to the constructor: one group with the basement only, its
\* orientation beyond the coordinates that edits write; and G1 (two elements)
\* over G2 (one element).
InitFrames ==
    {<<NewGroup(<<NewElement(PointOf(0),
                             OrientationOf(2 * MaxCoord + 2))>>, "ERODE")>>,
     <<NewGroup(<<NewElement(PointOf(0), <<>>),
                  NewElement(<<>>, <<>>)>>, "FAULT"),
       NewGroup(<<NewElement(PointOf(2), OrientationOf(2))>>, "ERODE")>>}

Levels == {1, MaxLevels}

UserResolutions == {None, Some(<<10, 10, 10>>)}

\* GeoModel.__init__ over one of `frames` whose flag is `dirty`.
Construct(frames, dirty) ==
    /\ structural_groups \in frames
    /\ is_dirty = dirty
    /\ resolution \in UserResolutions
    /\ n_octree_lvl \in Levels
    /\ transform = FromInputPoints(SurfacePoints(structural_groups),
                                   Orientations(structural_groups))
    /\ interpolationInput = None
    /\ solutions = None
    /\ lastOp = "init"
    /\ result = Returned(None)
    /\ warned = FALSE
    /\ rebuilds = 0
    /\ edits = 0
    /\ clearedContent = FrameContent(structural_groups)
    /\ pc = [t \in Threads |-> "idle"]
    /\ lock = None

\* A newly built frame is dirty.
Init == Construct(InitFrames, TRUE)

\* A frame handed over by its owner with the flag in either state.
InitAnyFlag == \E d \in BOOLEAN : Construct(InitFrames, d)

\* ---------------------------------------------------------------- structural edits
\* An edit that forgets the flag.
Edited_NoFlag(groups, op) ==
    /\ edits < MaxEdits
    /\ edits' = edits + 1
    /\ structural_groups' = groups
    /\ lastOp' = op
    /\ result' = Returned(None)
    /\ warned' = FALSE
    /\ rebuilds' = 0
    /\ UNCHANGED <<is_dirty, resolution, n_octree_lvl, transform,
                   interpolationInput, solutions, clearedContent, pc, lock>>

\* Any structural edit: the frame changes and StructuralFrame.is_dirty is set.
Edited(groups, op) ==
    /\ edits < MaxEdits
    /\ edits' = edits + 1
    /\ structural_groups' = groups
    /\ is_dirty' = TRUE
    /\ lastOp' = op
    /\ result' = Returned(None)
    /\ warned' = FALSE
    /\ rebuilds' = 0
    /\ UNCHANGED <<resolution, n_octree_lvl, transform, interpolationInput,
                   solutions, clearedContent, pc, lock>>

\* The frame with element i of group g replaced by el.
WithElement(groups, g, i, el) ==
    [groups EXCEPT ![g].elements[i] = el]

AddElement ==
    \E g \in 1..Len(structural_groups) :
        /\ Len(StructuralElements(structural_groups)) < MaxElems
        /\ Edited([structural_groups EXCEPT
                      ![g].elements = Append(@, NewElement(<<>>, <<>>))],
                  "add_element")

RemoveElement ==
    \E g \in 1..Len(structural_groups) :
        \E i \in 1..Len(structural_groups[g].elements) :
            Edited([structural_groups EXCEPT ![g].elements = SeqRemove(@, i)],
                   "remove_element")

ReorderGroups ==
    \E g \in 1..(Len(structural_groups) - 1) :
        Edited([structural_groups EXCEPT ![g] = structural_groups[g + 1],
                                         ![g + 1] = structural_groups[g]],
               "reorder_groups")

SetRelation ==
    \E g \in 1..Len(structural_groups) : \E r \in Relations :
        Edited([structural_groups EXCEPT ![g].relation = r], "set_relation")

AddPoint ==
    \E g \in 1..Len(structural_groups) :
        \E i \in 1..Len(structural_groups[g].elements) : \E c \in Coord :
            LET el == structural_groups[g].elements[i]
            IN  /\ Len(el.points) < MaxRows
                /\ Edited(WithElement(structural_groups, g, i,
                              [el EXCEPT !.points = Append(@, c)]),
                          "add_point")

RemovePoint ==
    \E g \in 1..Len(structural_groups) :
        \E i \in 1..Len(structural_groups[g].elements) :
            LET el == structural_groups[g].elements[i]
            IN  \E k \in 1..Len(el.points) :
                    Edited(WithElement(structural_groups, g, i,
                              [el EXCEPT !.points = SeqRemove(@, k)]),
                           "remove_point")

MovePoint ==
    \E g \in 1..Len(structural_groups) :
        \E i \in 1..Len(structural_groups[g].elements) : \E c \in Coord :
            LET el == structural_groups[g].elements[i]
            IN  \E k \in 1..Len(el.points) :
                    /\ el.points[k] # c
                    /\ Edited(WithElement(structural_groups, g, i,
                                  [el EXCEPT !.points[k] = c]),
                              "move_point")

AddOrientation ==
    \E g \in 1..Len(structural_groups) :
        \E i \in 1..Len(structural_groups[g].elements) : \E c \in Coord :
            LET el == structural_groups[g].elements[i]
            IN  /\ Len(el.orientations) < MaxRows
                /\ Edited(WithElement(structural_groups, g, i,
                              [el EXCEPT !.orientations = @ \o OrientationOf(c)]),
                          "add_orientation")

RemoveOrientation ==
    \E g \in 1..Len(structural_groups) :
        \E i \in 1..Len(structural_groups[g].elements) :
            LET el == structural_groups[g].elements[i]
            IN  \E k \in 1..Len(el.orientations) :
                    Edited(WithElement(structural_groups, g, i,
                              [el EXCEPT !.orientations = SeqRemove(@, k)]),
                           "remove_orientation")

MoveOrientation ==
    \E g \in 1..Len(structural_groups) :
        \E i \in 1..Len(structural_groups[g].elements) : \E c \in Coord :
            LET el == structural_groups[g].elements[i]
            IN  \E k \in 1..Len(el.orientations) :
                    /\ el.orientations[k].x # c
                    /\ Edited(WithElement(structural_groups, g, i,
                                  [el EXCEPT !.orientations[k].x = c]),
                              "move_orientation")

\* ---------------------------------------------------------------- GeoModel.solutions
\* Number of leading groups the first loop assigns before an index is out of
\* range (all of them when every matrix has a row for every group).
GroupsAssigned(groups, value) ==
    LET n == Len(value.raw_arrays.scalar_field_matrix)
        m == Len(value.raw_arrays.block_matrix)
        k == IF n < m THEN n ELSE m
    IN  IF Len(groups) < k THEN Len(groups) ELSE k

\* Every group is given the first slice.
LegacySolution_First(value, e) ==
    [scalar_field_matrix |-> value.raw_arrays.scalar_field_matrix[1],
     block_matrix |-> value.raw_arrays.block_matrix[1]]

\* LegacySolution(scalar_field_matrix[e], block_matrix[e]).
LegacySolution(value, e) ==
    [scalar_field_matrix |-> value.raw_arrays.scalar_field_matrix[e],
     block_matrix |-> value.raw_arrays.block_matrix[e]]

\* First loop: group e receives the slices at index e.
GroupsWithSolution(groups, value) ==
    [e \in 1..Len(groups) |->
        IF e <= GroupsAssigned(groups, value)
        THEN [groups[e] EXCEPT !.solution = Some(LegacySolution(value, e))]
        ELSE groups[e]]

\* The second loop without the basement exclusion.
MeshedCount_All(els) == Len(els)

\* structural_elements[:-1]: how many elements the second loop visits.
MeshedCount(els) == IF Len(els) = 0 THEN 0 ELSE Len(els) - 1

\* A loop that indexes dc_meshes without asking whether there is a list:
\* without one no element is reached and the setter raises.
ElementsAssigned_NoneRaises(groups, value) ==
    LET cnt == MeshedCount(StructuralElements(groups))
    IN  IF value.dc_meshes = None THEN 0
        ELSE IF Len(value.dc_meshes[1]) < cnt THEN Len(value.dc_meshes[1])
        ELSE cnt

\* Number of leading elements the second loop assigns before dc_meshes[e]
\* is out of range.
ElementsAssigned(groups, value) ==
    LET cnt == MeshedCount(StructuralElements(groups))
    IN  IF value.dc_meshes = None THEN cnt
        ELSE IF Len(value.dc_meshes[1]) < cnt THEN Len(value.dc_meshes[1])
        ELSE cnt

\* dc_mesh of the loop body.
DcMesh(value, e) ==
    IF value.dc_meshes # None THEN value.dc_meshes[1][e] ELSE None

\* A loop body that leaves the element alone when there is no mesh.
ElementWithMesh_SkipsNone(el, dc_mesh, T) ==
    IF dc_mesh = None THEN el
    ELSE [el EXCEPT !.vertices = Some(ApplyInverse(T, dc_mesh[1].vertices)),
                    !.edges = Some(dc_mesh[1].edges)]

\* A loop body that clears the vertices but keeps the edges when there is no
\* mesh.
ElementWithMesh_KeepsEdges(el, dc_mesh, T) ==
    [el EXCEPT
        !.vertices = IF dc_mesh # None
                     THEN Some(ApplyInverse(T, dc_mesh[1].vertices)) ELSE None,
        !.edges = IF dc_mesh # None THEN Some(dc_mesh[1].edges) ELSE el.edges]

\* The loop body's two assignments.
ElementWithMesh(el, dc_mesh, T) ==
    [el EXCEPT
        !.vertices = IF dc_mesh # None
                     THEN Some(ApplyInverse(T, dc_mesh[1].vertices)) ELSE None,
        !.edges = IF dc_mesh # None THEN Some(dc_mesh[1].edges) ELSE None]

\* Flattened index of the element before the first element of group g.
RECURSIVE Offset(_, _)
Offset(groups, g) ==
    IF g <= 1 THEN 0 ELSE Offset(groups, g - 1) + Len(groups[g - 1].elements)

\* Second loop: the element at flattened index e receives the mesh at index e.
GroupsWithMeshes(groups, value, T) ==
    [g \in 1..Len(groups) |->
        [groups[g] EXCEPT !.elements =
            [i \in 1..Len(groups[g].elements) |->
                LET e == Offset(groups, g) + i
                IN  IF e <= ElementsAssigned(groups, value)
                    THEN ElementWithMesh(groups[g].elements[i], DcMesh(value, e), T)
                    ELSE groups[g].elements[i]]]]

\* solutions.setter on the frame: store the value, then the two loops; an
\* index out of range raises IndexError and leaves what was assigned until then.
Distributed(value) ==
    LET afterGroups == GroupsWithSolution(structural_groups, value)
        groupsOk == GroupsAssigned(structural_groups, value)
                        = Len(structural_groups)
        elementsOk == ElementsAssigned(structural_groups, value)
                        = MeshedCount(StructuralElements(structural_groups))
    IN  /\ solutions' = Some(value)
        /\ structural_groups' =
               IF groupsOk
               THEN GroupsWithMeshes(afterGroups, value, transform)
               ELSE afterGroups
        /\ result' = IF groupsOk /\ elementsOk
                     THEN Returned(None) ELSE Raised("IndexError")
        /\ lastOp' = "set_solutions"
        /\ warned' = FALSE

\* A setter that also drops the cached InterpolationInput.
Assign_DropsCache(value) ==
    /\ Distributed(value)
    /\ interpolationInput' = None
    /\ UNCHANGED <<is_dirty, resolution, n_octree_lvl, transform, rebuilds,
                   edits, clearedContent, pc, lock>>

\* A setter that also marks the frame clean.
Assign_ClearsDirty(value) ==
    /\ Distributed(value)
    /\ is_dirty' = FALSE
    /\ UNCHANGED <<resolution, n_octree_lvl, transform, interpolationInput,
                   rebuilds, edits, clearedContent, pc, lock>>

\* solutions.setter: nothing but _solutions, the groups and the elements is
\* written.
Assign(value) ==
    /\ Distributed(value)
    /\ UNCHANGED <<is_dirty, resolution, n_octree_lvl, transform,
                   interpolationInput, rebuilds, edits, clearedContent, pc, lock>>

\* A caller assigns any Solutions object.
SetSolutions == \E value \in SolutionsSet : Assign(value)

\* The engine's result for the frame as it is: a slice per group and a mesh
\* per element but the last.
EngineResult(groups) ==
    [raw_arrays |-> RawArrays(1, Len(groups)),
     dc_meshes |-> Some([i \in 1..MeshedCount(StructuralElements(groups)) |->
                           Some(Mesh(1, i))])]

\* A caller assigns the engine's result for the current frame.
Solve == Assign(EngineResult(structural_groups))

\* solutions getter.
GetSolutions ==
    /\ lastOp' = "solutions"
    /\ result' = Returned(solutions)
    /\ warned' = FALSE
    /\ UNCHANGED <<structural_groups, is_dirty, resolution, n_octree_lvl,
                   transform, interpolationInput, solutions, rebuilds,
                   edits, clearedContent, pc, lock>>

\* ---------------------------------------------------------------- read-only accessors
GetSurfacePoints ==
    /\ lastOp' = "surface_points"
    /\ result' = Returned(SurfacePoints(structural_groups))
    /\ warned' = FALSE
    /\ UNCHANGED <<structural_groups, is_dirty, resolution, n_octree_lvl,
                   transform, interpolationInput, solutions, rebuilds,
                   edits, clearedContent, pc, lock>>

GetOrientations ==
    /\ lastOp' = "orientations"
    /\ result' = Returned(Orientations(structural_groups))
    /\ warned' = FALSE
    /\ UNCHANGED <<structural_groups, is_dirty, resolution, n_octree_lvl,
                   transform, interpolationInput, solutions, rebuilds,
                   edits, clearedContent, pc, lock>>

\* A descriptor computed once, from the frame as it was at construction.
GetInputDataDescriptor_Cached ==
    /\ lastOp' = "input_data_descriptor"
    /\ result' = Returned(InputDataDescriptor(clearedContent))
    /\ warned' = FALSE
    /\ UNCHANGED <<structural_groups, is_dirty, resolution, n_octree_lvl,
                   transform, interpolationInput, solutions, rebuilds,
                   edits, clearedContent, pc, lock>>

\* GeoModel.input_data_descriptor: the frame's descriptor, asked for on
\* every read.
GetInputDataDescriptor ==
    /\ lastOp' = "input_data_descriptor"
    /\ result' = Returned(InputDataDescriptor(structural_groups))
    /\ warned' = FALSE
    /\ UNCHANGED <<structural_groups, is_dirty, resolution, n_octree_lvl,
                   transform, interpolationInput, solutions, rebuilds,
                   edits, clearedContent, pc, lock>>

\* ---------------------------------------------------------------- GeoModel.interpolation_input
\* An override that doubles the level instead of raising 2 to it.
OctreeResolution_Linear(n) == Some(<<2 * n, 2 * n, 2 * n>>)

\* regular_grid.set_regular_grid(extent, resolution = [2 ** n] * 3).
OctreeResolution(n) == Some(<<Pow2(n), Pow2(n), Pow2(n)>>)

\* A guard that rebuilds only while nothing is cached yet.
NeedsRebuild_OnlyOnce(dirty, cached) == dirty /\ cached = None

\* A guard with the test the wrong way round.
NeedsRebuild_Inverted(dirty, cached) == ~dirty

\* A guard that ignores the flag.
NeedsRebuild_Always(dirty, cached) == TRUE

\* `if self.structural_frame.is_dirty:` -- the flag alone decides.
NeedsRebuild(dirty, cached) == dirty

\* An octree switch that is on from the first level.
ComputeOctrees_FromOne(n) == n >= 1

\* `compute_octrees = n_octree_lvl > 1`.
ComputeOctrees(n) == n > 1

\* A failed build that drops the cached value.
FailedBuild_DropsCache ==
    /\ result' = Raised("Error")
    /\ interpolationInput' = None
    /\ UNCHANGED rebuilds

\* InterpolationInput.from_structural_frame raises: the assignment to
\* _interpolationInput never happens and the error leaves the accessor.
FailedBuild ==
    /\ result' = Raised("Error")
    /\ UNCHANGED <<interpolationInput, rebuilds>>

\* A build that is handed the grid as it was before the override.
BuildGrid_BeforeOverride(before, after) == before

\* `grid=self.grid` of the build: the override has run on that grid by then.
BuildGrid(before, after) == after

\* The accessor's body: on a dirty frame the octree override and the rebuild
\* (the engine's constructor may raise: built = FALSE); then the cached value.
Accessor ==
    \E built \in BOOLEAN :
        /\ rebuilds < MaxRebuilds
        /\ lastOp' = "interpolation_input"
        /\ IF NeedsRebuild(is_dirty, interpolationInput)
           THEN LET compute_octrees == ComputeOctrees(n_octree_lvl)
                    res == IF compute_octrees
                           THEN OctreeResolution(n_octree_lvl) ELSE resolution
                IN  /\ warned' = (compute_octrees /\ resolution # None)
                    /\ resolution' = res
                    /\ IF built
                       THEN /\ interpolationInput' =
                                  Some(FromStructuralFrame(
                                          structural_groups,
                                          BuildGrid(resolution, res),
                                          transform, compute_octrees))
                            /\ rebuilds' = rebuilds + 1
                            /\ result' = Returned(interpolationInput')
                       ELSE FailedBuild
                    /\ UNCHANGED is_dirty
           ELSE /\ built
                /\ warned' = FALSE
                /\ result' = Returned(interpolationInput)
                /\ UNCHANGED <<resolution, interpolationInput, rebuilds, is_dirty>>

\* A read that refits the transform from the current input tables.
GetInterpolationInput_Refit ==
    /\ Accessor
    /\ LET sp == SurfacePoints(structural_groups)
           ori == Orientations(structural_groups)
       IN  transform' = IF Degenerate(sp, ori)
                        THEN transform ELSE FromInputPoints(sp, ori)
    /\ UNCHANGED <<structural_groups, n_octree_lvl, solutions, edits,
                   clearedContent, pc, lock>>

\* GeoModel.interpolation_input read by the program's one thread.
GetInterpolationInput ==
    /\ Accessor
    /\ UNCHANGED <<structural_groups, n_octree_lvl, transform, solutions,
                   edits, clearedContent, pc, lock>>

\* ---------------------------------------------------------------- specification
\* The input pipeline: structural edits, the accessors, and the engine's
\* result assigned back.
Next ==
    \/ AddElement
    \/ RemoveElement
    \/ ReorderGroups
    \/ SetRelation
    \/ AddPoint
    \/ RemovePoint
    \/ MovePoint
    \/ AddOrientation
    \/ RemoveOrientation
    \/ MoveOrientation
    \/ Solve
    \/ GetSolutions
    \/ GetSurfacePoints
    \/ GetOrientations
    \/ GetInputDataDescriptor
    \/ GetInterpolationInput

Spec == Init /\ [][Next]_vars

SpecAnyFlag == InitAnyFlag /\ [][Next]_vars

\* Frames of every composition: one or two groups, n1 and n2 elements; the
\* first element carries the input rows.
FrameOf(sizes) ==
    [g \in 1..Len(sizes) |->
        NewGroup([i \in 1..sizes[g] |->
                     IF g = 1 /\ i = 1
                     THEN NewElement(PointOf(0), OrientationOf(2))
                     ELSE NewElement(<<>>, <<>>)],
                 IF g = 1 THEN "FAULT" ELSE "ERODE")]

SolveFrames ==
    {FrameOf(<<n>>) : n \in 1..MaxElems} \cup
    {FrameOf(<<n[1], n[2]>>) :
        n \in {m \in (1..MaxElems) \X (0..MaxElems) : m[1] + m[2] <= MaxElems}}

\* Solution distribution: any Solutions object assigned, again and again, to
\* a frame of any composition (no octrees, no user resolution: the grid plays
\* no part).
InitSolve ==
    /\ Construct(SolveFrames, TRUE)
    /\ n_octree_lvl = 1
    /\ resolution = None

NextSolve == SetSolutions

SpecSolve == InitSolve /\ [][NextSolve]_vars

\* Two threads that read the accessor, each inside one mutual-exclusion
\* region (`with lock: model.interpolation_input`): the dirty check and the
\* rebuild run without another thread in between.
Lock(t) ==
    /\ pc[t] = "idle"
    /\ lock = None
    /\ lock' = Some(t)
    /\ pc' = [pc EXCEPT ![t] = "locked"]
    /\ UNCHANGED <<structural_groups, is_dirty, resolution, n_octree_lvl,
                   transform, interpolationInput, solutions, lastOp, result,
                   warned, rebuilds, edits, clearedContent>>

\* The accessor run by the thread that holds the lock.
LockedRead(t) ==
    /\ pc[t] = "locked"
    /\ lock = Some(t)
    /\ Accessor
    /\ pc' = [pc EXCEPT ![t] = "read"]
    /\ UNCHANGED <<structural_groups, n_octree_lvl, transform, solutions,
                   edits, clearedContent, lock>>

\* The region is left, whether the accessor returned or raised.
Unlock(t) ==
    /\ pc[t] = "read"
    /\ lock = Some(t)
    /\ lock' = None
    /\ pc' = [pc EXCEPT ![t] = "done"]
    /\ UNCHANGED <<structural_groups, is_dirty, resolution, n_octree_lvl,
                   transform, interpolationInput, solutions, lastOp, result,
                   warned, rebuilds, edits, clearedContent>>

NextLocked ==
    \/ \E t \in Threads : Lock(t)
    \/ \E t \in Threads : LockedRead(t)
    \/ \E t \in Threads : Unlock(t)

SpecLocked == Init /\ [][NextLocked]_vars

\* Construction as a step, over frames whose input rows may be missing or
\* coincident, and the transform taken there and back.
Positions == 0..MaxPosition

PointTables ==
    UNION {[1..n -> Positions] : n \in 0..MaxFitRows}

OrientationTables ==
    {<<>>} \cup {OrientationOf(c) : c \in Positions}

FitFrames ==
    {<<NewGroup(<<NewElement(pts, oris)>>, "ERODE")>> :
        pts \in PointTables, oris \in OrientationTables}

\* The constructor's arguments, before GeoModel.__init__ runs.
InitFit ==
    /\ structural_groups \in FitFrames
    /\ is_dirty = TRUE
    /\ resolution = None
    /\ n_octree_lvl = 1
    /\ transform = None
    /\ interpolationInput = None
    /\ solutions = None
    /\ lastOp = "new"
    /\ result = Returned(None)
    /\ warned = FALSE
    /\ rebuilds = 0
    /\ edits = 0
    /\ clearedContent = FrameContent(structural_groups)
    /\ pc = [t \in Threads |-> "idle"]
    /\ lock = None

\* A constructor that swallows the fit's error and goes on with a unit
\* transform.
NewGeoModel_Swallow ==
    /\ lastOp = "new"
    /\ lastOp' = "init"
    /\ result' = Returned(None)
    /\ LET sp == SurfacePoints(structural_groups)
           ori == Orientations(structural_groups)
       IN  transform' = IF Degenerate(sp, ori)
                        THEN [center |-> Rat(0, 1), extent |-> UnitSpan]
                        ELSE FromInputPoints(sp, ori)
    /\ UNCHANGED <<structural_groups, is_dirty, resolution, n_octree_lvl,
                   interpolationInput, solutions, warned, rebuilds, edits,
                   clearedContent, pc, lock>>

\* GeoModel.__init__: the transform is fitted with no handler around the
\* call, so the fit's error leaves the constructor and no GeoModel exists.
NewGeoModel ==
    /\ lastOp = "new"
    /\ LET sp == SurfacePoints(structural_groups)
           ori == Orientations(structural_groups)
       IN  IF Degenerate(sp, ori)
           THEN /\ lastOp' = "init_raised"
                /\ result' = Raised("DegenerateInputError")
                /\ UNCHANGED transform
           ELSE /\ lastOp' = "init"
                /\ result' = Returned(None)
                /\ transform' = FromInputPoints(sp, ori)
    /\ UNCHANGED <<structural_groups, is_dirty, resolution, n_octree_lvl,
                   interpolationInput, solutions, warned, rebuilds, edits,
                   clearedContent, pc, lock>>

\* Whether construction produced a GeoModel.
Constructed == lastOp \notin {"new", "init_raised"}

\* Points of the new model taken to normalised space (as the engine's input
\* is) and back (as the meshes are).
RoundTrip ==
    \E P \in PointTables :
        /\ lastOp = "init"
        /\ P # <<>>
        /\ lastOp' = "round_trip"
        /\ result' = Returned(
              [points |-> P,
               back |-> ApplyInverse(transform,
                            [i \in 1..Len(P) |-> Apply(transform, P[i])])])
        /\ UNCHANGED <<structural_groups, is_dirty, resolution, n_octree_lvl,
                       transform, interpolationInput, solutions, warned,
                       rebuilds, edits, clearedContent, pc, lock>>

NextFit == NewGeoModel \/ RoundTrip

SpecFit == InitFit /\ [][NextFit]_vars

\* ---------------------------------------------------------------- properties
EditOps == {"add_element", "remove_element", "reorder_groups", "set_relation",
            "add_point", "remove_point", "move_point", "add_orientation",
            "remove_orientation", "move_orientation"}

ReadOk == lastOp = "interpolation_input" /\ result.status = "ok"

AssignedValue == solutions[1]

NumSlices == Len(AssignedValue.raw_arrays.scalar_field_matrix)

\* A mesh exists at engine output index e of the assigned Solutions.
MeshExists(e) ==
    /\ AssignedValue.dc_meshes # None
    /\ e <= Len(AssignedValue.dc_meshes[1])
    /\ AssignedValue.dc_meshes[1][e] # None

\* C1: reads with no structural edit in between rebuild at most once (one
\* rebuild per dirty period, whatever the number of reads).
C1_OneRebuildPerDirtyPeriod == rebuilds <= 1

\* C2: a read that found the frame dirty and rebuilt leaves is_dirty false.
C2_ReadClearsDirty == (ReadOk /\ rebuilds >= 1) => ~is_dirty

\* C3: the value a read returns is the InterpolationInput of the frame's
\* current tables, the current grid and the transform.
C3_NeverStale ==
    ReadOk =>
        result.value = Some(FromStructuralFrame(structural_groups, resolution,
                                                transform, n_octree_lvl > 1))

\* C3 witness: a read after a structural edit and a solutions assignment.
C3_Witness ==
    /\ ReadOk
    /\ edits >= 1
    /\ FrameContent(structural_groups) # clearedContent
    /\ Len(result.value[1].surface_points) >= 1
    /\ solutions # None

\* C4: a read on a clean frame returns the cached value and changes nothing:
\* no rebuild, same cache, same resolution, no warning, flag still false.
C4_CleanReadChangesNothing ==
    [][(~is_dirty /\ lastOp' = "interpolation_input") =>
          /\ result' = Returned(interpolationInput)
          /\ ~warned'
          /\ ~is_dirty'
          /\ UNCHANGED <<interpolationInput, resolution, rebuilds,
                         structural_groups, transform, solutions>>]_vars

\* C4 witness: a read on a clean frame with octrees on and a user resolution.
C4_Witness ==
    /\ lastOp = "interpolation_input"
    /\ ~is_dirty
    /\ n_octree_lvl > 1
    /\ resolution = Some(<<10, 10, 10>>)

\* C5: every structural edit sets is_dirty, so the flag is true whenever the
\* frame's content differs from its content when the flag was last false.
C5_EditsSetDirty ==
    /\ lastOp \in EditOps => is_dirty
    /\ FrameContent(structural_groups) # clearedContent => is_dirty

\* C5 witness: an edit has changed the content.
C5_Witness ==
    /\ lastOp \in EditOps
    /\ FrameContent(structural_groups) # clearedContent
    /\ is_dirty

\* C6: is_dirty goes from true to false only in a read that rebuilt.
C6_OnlyRebuildClears ==
    [][(is_dirty /\ ~is_dirty') =>
          (lastOp' = "interpolation_input" /\ result'.status = "ok"
              /\ rebuilds' = rebuilds + 1)]_vars

\* C6 witness: a solutions assignment on a dirty frame; the flag is still set.
C6_Witness ==
    /\ lastOp = "set_solutions"
    /\ result.status = "ok"
    /\ is_dirty
    /\ interpolationInput # None

\* C7: after an assignment every group that has a slice at its index holds
\* exactly that scalar-field slice and that block slice.
C7_GroupSlices ==
    lastOp = "set_solutions" =>
        \A e \in 1..Len(structural_groups) :
            e <= NumSlices =>
                structural_groups[e].solution =
                    Some([scalar_field_matrix |->
                              AssignedValue.raw_arrays.scalar_field_matrix[e],
                          block_matrix |->
                              AssignedValue.raw_arrays.block_matrix[e]])

\* C7 witness: two groups, each with its own slice.
C7_Witness ==
    /\ lastOp = "set_solutions"
    /\ result.status = "ok"
    /\ Len(structural_groups) = 2
    /\ structural_groups[1].solution # None
    /\ structural_groups[2].solution # None
    /\ structural_groups[1].solution # structural_groups[2].solution

\* C8: an assignment whose number of slices differs from the number of groups
\* fails.
C8_MismatchFails ==
    (lastOp = "set_solutions" /\ NumSlices # Len(structural_groups)) =>
        result.status # "ok"

\* C9: after an assignment whose first loop completed, every element but the
\* last has the inverse-transformed vertices and the edges of the mesh at its
\* index, or None for both when there is no mesh there, and nothing is raised.
C9_ElementMeshes ==
    (lastOp = "set_solutions" /\ NumSlices >= Len(structural_groups)) =>
        LET els == StructuralElements(structural_groups)
        IN  /\ result.status = "ok"
            /\ \A e \in 1..(Len(els) - 1) :
                    IF MeshExists(e)
                    THEN /\ els[e].vertices =
                               Some(ApplyInverse(transform,
                                       AssignedValue.dc_meshes[1][e][1].vertices))
                         /\ els[e].edges =
                               Some(AssignedValue.dc_meshes[1][e][1].edges)
                    ELSE /\ els[e].vertices = None
                         /\ els[e].edges = None

\* C10: assignments never change the vertices or edges of the last element:
\* it has none at construction, and has none after any assignments.
C10_BasementUntouched ==
    LET els == StructuralElements(structural_groups)
    IN  /\ els[Len(els)].vertices = None
        /\ els[Len(els)].edges = None

\* C10 witness: the assigned Solutions has a mesh at the last element's index,
\* the element before it received its mesh, the last one has none.
C10_Witness ==
    LET els == StructuralElements(structural_groups)
    IN  /\ lastOp = "set_solutions"
        /\ result.status = "ok"
        /\ Len(els) >= 2
        /\ MeshExists(Len(els))
        /\ els[Len(els) - 1].vertices # None
        /\ els[Len(els)].vertices = None

\* C11: a read on a dirty frame with n_octree_lvl = L > 1 and a resolution
\* already set emits the warning and leaves the resolution at 2^L on each
\* axis; the warning is not an error: a read that returns hands back the
\* InterpolationInput built with that resolution.
C11_OctreeOverride ==
    [][(/\ lastOp' = "interpolation_input"
        /\ is_dirty
        /\ n_octree_lvl > 1
        /\ resolution # None)
       => (/\ warned'
           /\ resolution' = Some([axis \in 1..3 |-> Pow2(n_octree_lvl)])
           /\ result'.status \in {"ok", "Error"}
           /\ result'.status = "ok" =>
                 /\ result'.value # None
                 /\ result'.value[1].resolution = resolution'
                 /\ result'.value[1].octrees)]_vars

\* C11 witness: three levels over a resolution of [10, 10, 10]: the first read
\* warned, returned, and the resolution is [8, 8, 8].
C11_Witness ==
    /\ lastOp = "interpolation_input"
    /\ result.status = "ok"
    /\ n_octree_lvl = 3
    /\ warned
    /\ rebuilds = 1
    /\ resolution = Some(<<8, 8, 8>>)
    /\ result.value[1].resolution = Some(<<8, 8, 8>>)

\* C12: with the dirty check and the rebuild inside one mutual-exclusion
\* region, two threads that both read the dirty frame cause one rebuild only:
\* the first clears the flag, the second finds the frame clean and returns
\* the cached object.
C12_LockedReadersRebuildOnce ==
    ((\A t \in Threads : pc[t] = "done") /\ rebuilds >= 1)
        => (rebuilds = 1 /\ ~is_dirty)

\* C13: the transform fitted at construction is never changed afterwards,
\* by no structural edit, no read and no assignment of solutions.
C13_TransformFixed == [][transform' = transform]_vars

\* C13 witness: after an edit, a rebuild and an assignment of solutions the
\* transform is still the one fitted at construction, although fitting the
\* current input rows would give another.
C13_Witness ==
    LET sp == SurfacePoints(structural_groups)
        ori == Orientations(structural_groups)
    IN  /\ edits >= 1
        /\ rebuilds >= 1
        /\ solutions # None
        /\ ~Degenerate(sp, ori)
        /\ transform # FromInputPoints(sp, ori)

\* C14: for every valid transform (extent > 0) and every finite point set P,
\* apply_inverse(apply(P)) is P.
C14_RoundTrip ==
    lastOp = "round_trip" =>
        /\ transform.extent > 0
        /\ Len(result.value.back) = Len(result.value.points)
        /\ \A i \in 1..Len(result.value.points) :
              /\ result.value.back[i].den = 1
              /\ result.value.back[i].num = result.value.points[i]

\* C14 witness: a transform whose extent does not divide the unit span and
\* whose centre is not a whole number took two different points there and
\* back.
C14_Witness ==
    /\ lastOp = "round_trip"
    /\ transform.extent = 3
    /\ transform.center.den = 2
    /\ Len(result.value.points) = 2
    /\ result.value.points[1] # result.value.points[2]
    /\ Apply(transform, result.value.points[1]).den # 1

\* C15: fitting the transform from no rows or from coincident rows fails with
\* DegenerateInputError, and construction surfaces it: no GeoModel exists.
C15_DegenerateSurfaces ==
    (/\ lastOp # "new"
     /\ Degenerate(SurfacePoints(structural_groups),
                   Orientations(structural_groups)))
    => (/\ result.status = "DegenerateInputError"
        /\ ~Constructed
        /\ transform = None)

\* C15 witness: construction over two surface points and an orientation, all
\* at one position, raised.
C15_Witness ==
    /\ lastOp = "init_raised"
    /\ Len(SurfacePoints(structural_groups)) = 2
    /\ Len(Orientations(structural_groups)) = 1
    /\ Cardinality(InputPositions(SurfacePoints(structural_groups),
                                  Orientations(structural_groups))) = 1

\* C16: input_data_descriptor always reflects the frame's current composition
\* and relation types: one entry per group, in order, with that group's
\* number of elements and relation as they are now.
C16_DescriptorCurrent ==
    lastOp = "input_data_descriptor" =>
        /\ result.status = "ok"
        /\ Len(result.value) = Len(structural_groups)
        /\ \A g \in 1..Len(structural_groups) :
              /\ result.value[g].n_elements = Len(structural_groups[g].elements)
              /\ result.value[g].relation = structural_groups[g].relation

\* C16 witness: the descriptor read after an edit that changed the
\* composition or a relation differs from the construction-time one.
C16_Witness ==
    /\ lastOp = "input_data_descriptor"
    /\ edits >= 1
    /\ result.value # InputDataDescriptor(clearedContent)

\* The (group, element) cells of a frame, and their order in the tables.
Cells(groups) ==
    UNION {{<<g, i>> : i \in 1..Len(groups[g].elements)} :
              g \in 1..Len(groups)}

Before(c, d) == c[1] < d[1] \/ (c[1] = d[1] /\ c[2] < d[2])

RECURSIVE RowCount(_, _, _)
RowCount(groups, field, cells) ==
    IF cells = {} THEN 0
    ELSE LET c == CHOOSE x \in cells : TRUE
         IN  Len(groups[c[1]].elements[c[2]][field])
                + RowCount(groups, field, cells \ {c})

\* `table` holds every element's rows of `field` as one contiguous slice,
\* the slices in group order and then element order, and nothing else.
InOrder(groups, field, table) ==
    /\ Len(table) = RowCount(groups, field, Cells(groups))
    /\ \A c \in Cells(groups) :
          LET rows == groups[c[1]].elements[c[2]][field]
              start == RowCount(groups, field,
                                {d \in Cells(groups) : Before(d, c)})
          IN  \A k \in 1..Len(rows) : table[start + k] = rows[k]

\* C17: the flattened surface_points and orientations are the concatenation
\* of every element's rows in group order and then element order: the length
\* is the sum of the elements' lengths and each element's rows are one
\* contiguous slice.
C17_FlattenOrder ==
    /\ lastOp = "surface_points" =>
          InOrder(structural_groups, "points", result.value)
    /\ lastOp = "orientations" =>
          InOrder(structural_groups, "orientations", result.value)

\* C17 witness: surface points read from a frame of two groups, an element
\* without rows between two elements with different rows.
C17_Witness ==
    /\ lastOp = "surface_points"
    /\ Len(structural_groups) = 2
    /\ Len(result.value) = 2
    /\ result.value[1] # result.value[2]
    /\ \E c \in Cells(structural_groups) :
          /\ structural_groups[c[1]].elements[c[2]].points = <<>>
          /\ \E b, d \in Cells(structural_groups) :
                /\ Before(b, c) /\ Before(c, d)
                /\ structural_groups[b[1]].elements[b[2]].points # <<>>
                /\ structural_groups[d[1]].elements[d[2]].points # <<>>

\* C18: an element's mesh is never partially updated: after every
\* assignment, one that raised included, each element's vertices and edges
\* are both absent, or both come from the mesh at the element's index of one
\* and the same Solutions.
C18_MeshWhole ==
    LET els == StructuralElements(structural_groups)
    IN  \A e \in 1..Len(els) :
            \/ els[e].vertices = None /\ els[e].edges = None
            \/ \E k \in SolutionIds :
                  /\ els[e].vertices =
                        Some(ApplyInverse(transform, Mesh(k, e).vertices))
                  /\ els[e].edges = Some(Mesh(k, e).edges)

\* C18 witness: an assignment raised after the first element received its
\* mesh; the second element still carries the mesh of the Solutions assigned
\* earlier.
C18_Witness ==
    LET els == StructuralElements(structural_groups)
    IN  /\ lastOp = "set_solutions"
        /\ result.status = "IndexError"
        /\ Len(els) = 3
        /\ \E k, j \in SolutionIds :
              /\ k # j
              /\ AssignedValue.raw_arrays = RawArrays(k, NumSlices)
              /\ els[1].edges = Some(Mesh(k, 1).edges)
              /\ els[2].edges = Some(Mesh(j, 2).edges)

\* C19: when the rebuild raises, the error leaves the accessor, is_dirty stays
\* true, the cached InterpolationInput stays the last one built and the
\* transform stays as fitted; the read after a failed one builds again, from
\* the frame as it is and with that same transform.
C19_FailedRebuild ==
    [][/\ (lastOp' = "interpolation_input" /\ result'.status # "ok")
            => /\ result'.status = "Error"
               /\ is_dirty'
               /\ interpolationInput' = interpolationInput
               /\ transform' = transform
       /\ (/\ lastOp = "interpolation_input" /\ result.status = "Error"
           /\ lastOp' = "interpolation_input" /\ result'.status = "ok")
            => /\ rebuilds' = rebuilds + 1
               /\ transform' = transform
               /\ result'.value = interpolationInput'
               /\ interpolationInput' =
                     Some(FromStructuralFrame(structural_groups, resolution',
                                              transform, n_octree_lvl > 1))
      ]_vars

\* C19 witness: a read raised after an edit; the cache still holds the value
\* built before the edit and the frame is dirty.
C19_Witness ==
    /\ lastOp = "interpolation_input"
    /\ result.status = "Error"
    /\ edits >= 1
    /\ is_dirty
    /\ interpolationInput # None
    /\ interpolationInput[1].surface_points #
          [i \in 1..Len(SurfacePoints(structural_groups)) |->
              Apply(transform, SurfacePoints(structural_groups)[i])]

\* C20 as stated: a read changes the regular-grid resolution only when the
\* frame is dirty, n_octree_lvl > 1 and a resolution was set; with
\* n_octree_lvl <= 1, or with no resolution set, the read leaves the
\* resolution unchanged and emits no warning.
C20_OverrideOnlyOverSetResolution ==
    [][lastOp' = "interpolation_input" =>
          /\ resolution' # resolution =>
                (is_dirty /\ n_octree_lvl > 1 /\ resolution # None)
          /\ (n_octree_lvl <= 1 \/ resolution = None) =>
                (resolution' = resolution /\ ~warned')
      ]_vars

\* C20: a read changes the regular-grid resolution only when the frame is
\* dirty and n_octree_lvl > 1, whether or not a resolution was set, and
\* warns only when one was; on a dirty frame with n_octree_lvl > 1 and no
\* resolution set it sets the octree resolution without a warning; with
\* n_octree_lvl <= 1 it leaves the resolution unchanged and emits no warning.
C20_OverrideOnlyWithOctrees ==
    [][lastOp' = "interpolation_input" =>
          /\ resolution' # resolution => (is_dirty /\ n_octree_lvl > 1)
          /\ warned' => (is_dirty /\ n_octree_lvl > 1 /\ resolution # None)
          /\ n_octree_lvl <= 1 => (resolution' = resolution /\ ~warned')
          /\ (is_dirty /\ n_octree_lvl > 1 /\ resolution = None) =>
                /\ resolution' = Some([axis \in 1..3 |-> Pow2(n_octree_lvl)])
                /\ ~warned'
      ]_vars

\* C20 witness: a read with three levels and no resolution set left the
\* resolution at [8, 8, 8] and did not warn.
C20_Witness ==
    /\ lastOp = "interpolation_input"
    /\ n_octree_lvl = 3
    /\ ~warned
    /\ resolution = Some(<<8, 8, 8>>)

\* C21: within one rebuild the octree override comes before the build: the
\* InterpolationInput a read returns with n_octree_lvl = L > 1 carries the
\* resolution 2^L on each axis, never the one the grid had before the read.
C21_OverrideBeforeBuild ==
    (lastOp = "interpolation_input" /\ result.status = "ok" /\ n_octree_lvl > 1)
        => /\ result.value # None
           /\ result.value[1].resolution =
                 Some([axis \in 1..3 |-> Pow2(n_octree_lvl)])
           /\ result.value[1].resolution = resolution

\* C21 witness: the first build of a model with three levels whose grid had
\* no resolution (so nothing was warned about) carries [8, 8, 8].
C21_Witness ==
    /\ lastOp = "interpolation_input"
    /\ result.status = "ok"
    /\ n_octree_lvl = 3
    /\ rebuilds = 1
    /\ edits = 0
    /\ ~warned
    /\ result.value[1].resolution = Some(<<8, 8, 8>>)

\* C22: each solve overwrites the one before completely: after a successful
\* assignment every group's slice and every non-basement element's vertices
\* and edges are those of the Solutions assigned last, and an element without
\* a mesh in it has vertices = edges = None, whatever it held before.
C22_LastSolveAlone ==
    (lastOp = "set_solutions" /\ result.status = "ok") =>
        LET els == StructuralElements(structural_groups)
            raw == AssignedValue.raw_arrays
            meshes == AssignedValue.dc_meshes
        IN  /\ \A g \in 1..Len(structural_groups) :
                  /\ structural_groups[g].solution # None
                  /\ structural_groups[g].solution[1].scalar_field_matrix =
                        raw.scalar_field_matrix[g]
                  /\ structural_groups[g].solution[1].block_matrix =
                        raw.block_matrix[g]
            /\ \A e \in 1..(Len(els) - 1) :
                  IF meshes # None /\ meshes[1][e] # None
                  THEN /\ els[e].vertices # None /\ els[e].edges # None
                       /\ els[e].vertices[1] =
                             ApplyInverse(transform, meshes[1][e][1].vertices)
                       /\ els[e].edges[1] = meshes[1][e][1].edges
                  ELSE els[e].vertices = None /\ els[e].edges = None

\* C22 witness: the Solutions assigned last has a mesh for the second element
\* and none for the first, over three elements: the first element has no
\* mesh, the second has the one of that Solutions.
C22_Witness ==
    LET els == StructuralElements(structural_groups)
    IN  /\ lastOp = "set_solutions"
        /\ result.status = "ok"
        /\ Len(els) = 3
        /\ AssignedValue.dc_meshes # None
        /\ AssignedValue.dc_meshes[1][1] = None
        /\ AssignedValue.dc_meshes[1][2] # None
        /\ els[1].vertices = None
        /\ els[2].edges = Some(AssignedValue.dc_meshes[1][2][1].edges)

\* C23: assigning Solutions leaves the input side untouched: is_dirty, the
\* cached InterpolationInput, the grid resolution, the transform and every
\* element's points and orientations are unchanged; a read that follows an
\* assignment on a clean frame does not rebuild.
C23_InputSideUntouched ==
    [][/\ lastOp' = "set_solutions" =>
            /\ is_dirty' = is_dirty
            /\ interpolationInput' = interpolationInput
            /\ resolution' = resolution
            /\ n_octree_lvl' = n_octree_lvl
            /\ transform' = transform
            /\ FrameContent(structural_groups') = FrameContent(structural_groups)
       /\ (/\ lastOp = "set_solutions" /\ ~is_dirty
           /\ lastOp' = "interpolation_input")
            => /\ rebuilds' = rebuilds
               /\ interpolationInput' = interpolationInput
               /\ result'.value = interpolationInput
      ]_vars

\* C23 witness: solutions were assigned over a built input on a frame that
\* has rows; the frame's groups now carry their slices, the cache is there.
C23_Witness ==
    /\ lastOp = "set_solutions"
    /\ result.status = "ok"
    /\ interpolationInput # None
    /\ SurfacePoints(structural_groups) # <<>>
    /\ \A g \in 1..Len(structural_groups) : structural_groups[g].solution # None

\* C24: a read of interpolation_input never returns None: the frame is dirty
\* from construction, so the first read builds, and every read that returns
\* hands back the value some build produced and the cache holds.
C24_ReadNeverNone ==
    (lastOp = "interpolation_input" /\ result.status = "ok") =>
        /\ result.value # None
        /\ result.value = interpolationInput
        /\ rebuilds >= 1

\* C24 witness: the first read after construction (no octrees, no resolution
\* set) built the value it returned.
C24_Witness ==
    /\ lastOp = "interpolation_input"
    /\ result.status = "ok"
    /\ edits = 0
    /\ rebuilds = 1
    /\ n_octree_lvl = 1
    /\ resolution = None
    /\ solutions = None
    /\ result.value # None

\* C25: when the assigned Solutions has no mesh collection (dc_meshes is
\* None) and a slice for every group, the assignment raises nothing, every
\* group receives its slice and every non-basement element ends with
\* vertices = None and edges = None.
C25_NoMeshCollection ==
    (/\ lastOp = "set_solutions"
     /\ AssignedValue.dc_meshes = None
     /\ NumSlices >= Len(structural_groups))
    => LET els == StructuralElements(structural_groups)
       IN  /\ result = Returned(None)
           /\ \A g \in 1..Len(structural_groups) :
                 structural_groups[g].solution =
                     Some(LegacySolution(AssignedValue, g))
           /\ \A e \in 1..(Len(els) - 1) :
                 els[e].vertices = None /\ els[e].edges = None

\* C25 witness: a Solutions without a mesh collection was assigned over
\* three elements in two groups; both groups carry its slices.
C25_Witness ==
    /\ lastOp = "set_solutions"
    /\ result.status = "ok"
    /\ AssignedValue.dc_meshes = None
    /\ Len(StructuralElements(structural_groups)) = 3
    /\ Len(structural_groups) = 2
    /\ structural_groups[2].solution = Some(LegacySolution(AssignedValue, 2))

\* C26: the warning is emitted at most once per dirty period: with
\* n_octree_lvl > 1, a read that is not the first since the last structural
\* edit (an earlier one has built already) emits no warning, and the
\* resolution stays 2^n_octree_lvl.
C26_WarnedOncePerPeriod ==
    (lastOp = "interpolation_input" /\ n_octree_lvl > 1 /\ rebuilds >= 2)
        => /\ ~warned
           /\ resolution = Some([axis \in 1..3 |-> Pow2(n_octree_lvl)])

====
